---- MODULE Spec2Model ----
(***************************************************************************)
(* Model of color_cycling.py: main() from the conversion of the entered    *)
(* hex colour lists (step 3) to the saving of the GIF (step 7).            *)
(*                                                                         *)
(* A hex colour string is represented by the 24-bit number it denotes      *)
(* (the leading '#' and the letter case are gone after validation), an RGB *)
(* colour by the triple <<r, g, b>> that hex_to_rgb returns.  Python lists  *)
(* are sequences; Python's 0-based indices are kept in the variables and   *)
(* shifted by one where a sequence is indexed.                             *)
(***************************************************************************)
EXTENDS Integers, Sequences, FiniteSets

\* ---- bounds of the model ----
NumColors == 3       \* hex colours the user may type (main pipeline)
MapColors == 5       \* hex colours in the frame-map specification
MaxGroups == 2       \* colour lists entered
MaxGroupLen == 3     \* colours per list
MaxPixels == 2       \* pixels of the image
MaxFrameIndex == 11  \* largest frame index tried in the frame-map specification
MaxLcmLen == 6       \* largest list length in the LCM specification
MaxLcmGroups == 3    \* lists in the LCM specification

\* the hex colours FF0000 00FF00 0000FF FFFF00 00FFFF FF00FF FFFFFF 000000
PaletteHex == <<16711680, 65280, 255, 16776960, 65535, 16711935, 16777215, 0>>

VARIABLES
    png_pixels,            \* pixel data of the PNG file (as RGB)
    color_lists_hex,       \* the lists returned by get_color_lists_from_user
    color_lists_rgb,
    all_target_colors_rgb,
    color_list_map,
    warnings,              \* colours of the duplicate warnings written to stderr
    scan_i,                \* i of "for i, hex_list in enumerate(color_lists_hex)"
    scan_j,                \* colours of rgb_list already visited by the inner loop
    base_pixels,
    num_frames,
    frame_index,
    current_frame_map,
    frames,
    error,                 \* exception raised during frame generation
    saved,                 \* frames written to the output GIF
    pc

vars == <<png_pixels, color_lists_hex, color_lists_rgb, all_target_colors_rgb,
          color_list_map, warnings, scan_i, scan_j, base_pixels, num_frames,
          frame_index, current_frame_map, frames, error, saved, pc>>

\* ---- helper functions ----

hex_to_rgb(hex_color) ==
    <<hex_color \div 65536, (hex_color \div 256) % 256, hex_color % 256>>

RECURSIVE gcd(_, _)
gcd(a, b) == IF b = 0 THEN a ELSE gcd(b, a % b)

abs(x) == IF x < 0 THEN -x ELSE x

calculate_lcm_product(a, b) == IF a # 0 /\ b # 0 THEN abs(a * b) ELSE 0

calculate_lcm_max(a, b) ==
    IF a # 0 /\ b # 0 THEN (IF a > b THEN a ELSE b) ELSE 0

calculate_lcm(a, b) ==
    IF a # 0 /\ b # 0 THEN abs(a * b) \div gcd(a, b) ELSE 0

\* a Python dict
EmptyDict == [c \in {} |-> c]

DictPut(d, k, v) == [x \in (DOMAIN d) \cup {k} |-> IF x = k THEN v ELSE d[x]]

\* ---- step 3: the colour -> list index map ----

ClaimOwnerLast(map, seen, color_rgb, i) == DictPut(map, color_rgb, i)

\* lines 111-116: only a colour not seen before is entered in the map
ClaimOwner(map, seen, color_rgb, i) ==
    IF color_rgb \in seen THEN map ELSE DictPut(map, color_rgb, i)

ConvertHexList(hex_list) == [n \in 1..Len(hex_list) |-> hex_to_rgb(hex_list[n])]

\* ---- step 5: number of frames ----

RECURSIVE FoldLcm(_, _, _)
FoldLcm(lists, acc, i) ==
    IF i >= Len(lists) THEN acc
    ELSE FoldLcm(lists, calculate_lcm(acc, Len(lists[i + 1])), i + 1)

NumFramesSkipLast(lists) ==
    IF lists # <<>>
    THEN FoldLcm(SubSeq(lists, 1, Len(lists) - 1), Len(lists[1]), 1)
    ELSE 1

\* lines 142-146
NumFrames(lists) ==
    IF lists # <<>> THEN FoldLcm(lists, Len(lists[1]), 1) ELSE 1

\* ---- step 6: the frame map and the pixels ----

OwnsAlways(map, original_color, list_index) == TRUE

\* line 163: color_list_map.get(original_color) == list_index
Owns(map, original_color, list_index) ==
    original_color \in DOMAIN map /\ map[original_color] = list_index

NewColorIndexShifted(i, k, list_len) == (i + k + 1) % list_len

\* line 164
NewColorIndex(i, k, list_len) == (i + k) % list_len

RECURSIVE MapColorList(_, _, _, _, _, _)
MapColorList(acc, color_list, list_index, k, map, i) ==
    IF i >= Len(color_list) THEN acc
    ELSE LET original_color == color_list[i + 1]
             new_color_index == NewColorIndex(i, k, Len(color_list))
             next == IF Owns(map, original_color, list_index)
                     THEN DictPut(acc, original_color, color_list[new_color_index + 1])
                     ELSE acc
         IN  MapColorList(next, color_list, list_index, k, map, i + 1)

RECURSIVE MapLists(_, _, _, _, _)
MapLists(acc, lists, k, map, list_index) ==
    IF list_index >= Len(lists) THEN acc
    ELSE MapLists(MapColorList(acc, lists[list_index + 1], list_index, k, map, 0),
                  lists, k, map, list_index + 1)

BuildFrameMap(lists, map, k) == MapLists(EmptyDict, lists, k, map, 0)

RenderPixelTwice(original_pixel, table) ==
    IF original_pixel \in DOMAIN table
    THEN (IF table[original_pixel] \in DOMAIN table
          THEN table[table[original_pixel]] ELSE table[original_pixel])
    ELSE original_pixel

RenderPixelBlank(original_pixel, table) ==
    IF original_pixel \in DOMAIN table THEN table[original_pixel] ELSE <<0, 0, 0>>

\* lines 170-173
RenderPixel(original_pixel, table) ==
    IF original_pixel \in DOMAIN table THEN table[original_pixel] ELSE original_pixel

\* lines 154, 169-173: a copy of the original data, every pixel replaced in turn
RenderPixels(pixels, table) ==
    [i \in 1..Len(pixels) |-> RenderPixel(pixels[i], table)]

PrependFrame(fs, frame_image) == <<frame_image>> \o fs

\* line 179
AppendFrame(fs, frame_image) == Append(fs, frame_image)

ExceptExitSwallowed == "save"

\* lines 181-187: both handlers end in sys.exit(1)
ExceptExit == "exit1"

\* ---- inputs ----

HexColors(n) == {PaletteHex[i] : i \in 1..n}

HexGroups(n, maxLen) == UNION {[1..len -> HexColors(n)] : len \in 2..maxLen}

HexLists(n, maxGroups, maxLen) ==
    UNION {[1..g -> HexGroups(n, maxLen)] : g \in 1..maxGroups}

Rasters(n, maxPixels) ==
    UNION {[1..len -> {hex_to_rgb(h) : h \in HexColors(n)}] : len \in 1..maxPixels}

\* ---- the main pipeline ----

Init ==
    /\ color_lists_hex \in HexLists(NumColors, MaxGroups, MaxGroupLen)
    /\ png_pixels \in Rasters(NumColors, MaxPixels)
    /\ color_lists_rgb = <<>>
    /\ all_target_colors_rgb = {}
    /\ color_list_map = EmptyDict
    /\ warnings = <<>>
    /\ scan_i = 0
    /\ scan_j = 0
    /\ base_pixels = <<>>
    /\ num_frames = 1
    /\ frame_index = 0
    /\ current_frame_map = EmptyDict
    /\ frames = <<>>
    /\ error = "none"
    /\ saved = <<>>
    /\ pc = "convert"

\* lines 106-109: the next hex list is converted and appended
ConvertList ==
    /\ pc = "convert"
    /\ scan_i < Len(color_lists_hex)
    /\ color_lists_rgb' = Append(color_lists_rgb, ConvertHexList(color_lists_hex[scan_i + 1]))
    /\ scan_j' = 0
    /\ pc' = "scan"
    /\ UNCHANGED <<png_pixels, color_lists_hex, all_target_colors_rgb, color_list_map,
                   warnings, scan_i, base_pixels, num_frames, frame_index,
                   current_frame_map, frames, error, saved>>

\* lines 110-117: one colour of rgb_list
ScanColor ==
    /\ pc = "scan"
    /\ scan_j < Len(color_lists_rgb[scan_i + 1])
    /\ LET color_rgb == color_lists_rgb[scan_i + 1][scan_j + 1]
       IN  /\ warnings' = IF color_rgb \in all_target_colors_rgb
                          THEN Append(warnings, color_rgb) ELSE warnings
           /\ color_list_map' = ClaimOwner(color_list_map, all_target_colors_rgb,
                                           color_rgb, scan_i)
           /\ all_target_colors_rgb' = all_target_colors_rgb \cup {color_rgb}
    /\ scan_j' = scan_j + 1
    /\ UNCHANGED <<png_pixels, color_lists_hex, color_lists_rgb, scan_i, base_pixels,
                   num_frames, frame_index, current_frame_map, frames, error, saved, pc>>

\* the inner loop is exhausted: next i
EndList ==
    /\ pc = "scan"
    /\ scan_j = Len(color_lists_rgb[scan_i + 1])
    /\ scan_i' = scan_i + 1
    /\ pc' = "convert"
    /\ UNCHANGED <<png_pixels, color_lists_hex, color_lists_rgb, all_target_colors_rgb,
                   color_list_map, warnings, scan_j, base_pixels, num_frames,
                   frame_index, current_frame_map, frames, error, saved>>

\* lines 124-139: the image is opened and its pixel data read
LoadImage ==
    /\ pc = "convert"
    /\ scan_i = Len(color_lists_hex)
    /\ base_pixels' = png_pixels
    /\ pc' = "lcm"
    /\ UNCHANGED <<png_pixels, color_lists_hex, color_lists_rgb, all_target_colors_rgb,
                   color_list_map, warnings, scan_i, scan_j, num_frames, frame_index,
                   current_frame_map, frames, error, saved>>

\* lines 134-136: opening the image raised
LoadImageFails ==
    /\ pc = "convert"
    /\ scan_i = Len(color_lists_hex)
    /\ pc' = "exit1"
    /\ UNCHANGED <<png_pixels, color_lists_hex, color_lists_rgb, all_target_colors_rgb,
                   color_list_map, warnings, scan_i, scan_j, base_pixels, num_frames,
                   frame_index, current_frame_map, frames, error, saved>>

\* lines 141-151
CalcFrames ==
    /\ pc = "lcm"
    /\ num_frames' = NumFrames(color_lists_rgb)
    /\ frame_index' = 0
    /\ frames' = <<>>
    /\ pc' = "frames"
    /\ UNCHANGED <<png_pixels, color_lists_hex, color_lists_rgb, all_target_colors_rgb,
                   color_list_map, warnings, scan_i, scan_j, base_pixels,
                   current_frame_map, error, saved>>

\* lines 153-165: the mapping of the frame
MapFrame ==
    /\ pc = "frames"
    /\ frame_index < num_frames
    /\ current_frame_map' = BuildFrameMap(color_lists_rgb, color_list_map, frame_index)
    /\ pc' = "render"
    /\ UNCHANGED <<png_pixels, color_lists_hex, color_lists_rgb, all_target_colors_rgb,
                   color_list_map, warnings, scan_i, scan_j, base_pixels, num_frames,
                   frame_index, frames, error, saved>>

\* lines 154, 168-179: the pixels of the frame; the frame is appended
RenderFrame ==
    /\ pc = "render"
    /\ frames' = AppendFrame(frames, RenderPixels(base_pixels, current_frame_map))
    /\ frame_index' = frame_index + 1
    /\ pc' = "frames"
    /\ UNCHANGED <<png_pixels, color_lists_hex, color_lists_rgb, all_target_colors_rgb,
                   color_list_map, warnings, scan_i, scan_j, base_pixels, num_frames,
                   current_frame_map, error, saved>>

\* an iteration of the frame loop raises (MemoryError or another exception)
FrameRaises ==
    /\ \/ pc = "frames" /\ frame_index < num_frames
       \/ pc = "render"
    /\ \E e \in {"MemoryError", "Exception"} : error' = e
    /\ pc' = "except"
    /\ UNCHANGED <<png_pixels, color_lists_hex, color_lists_rgb, all_target_colors_rgb,
                   color_list_map, warnings, scan_i, scan_j, base_pixels, num_frames,
                   frame_index, current_frame_map, frames, saved>>

\* lines 181-187
HandleFrameError ==
    /\ pc = "except"
    /\ pc' = ExceptExit
    /\ UNCHANGED <<png_pixels, color_lists_hex, color_lists_rgb, all_target_colors_rgb,
                   color_list_map, warnings, scan_i, scan_j, base_pixels, num_frames,
                   frame_index, current_frame_map, frames, error, saved>>

\* range(num_frames) is exhausted
EndFrames ==
    /\ pc = "frames"
    /\ frame_index >= num_frames
    /\ pc' = "save"
    /\ UNCHANGED <<png_pixels, color_lists_hex, color_lists_rgb, all_target_colors_rgb,
                   color_list_map, warnings, scan_i, scan_j, base_pixels, num_frames,
                   frame_index, current_frame_map, frames, error, saved>>

\* lines 196-206
SaveGif ==
    /\ pc = "save"
    /\ saved' = frames
    /\ pc' = "done"
    /\ UNCHANGED <<png_pixels, color_lists_hex, color_lists_rgb, all_target_colors_rgb,
                   color_list_map, warnings, scan_i, scan_j, base_pixels, num_frames,
                   frame_index, current_frame_map, frames, error>>

\* lines 207-209
SaveFails ==
    /\ pc = "save"
    /\ pc' = "exit1"
    /\ UNCHANGED <<png_pixels, color_lists_hex, color_lists_rgb, all_target_colors_rgb,
                   color_list_map, warnings, scan_i, scan_j, base_pixels, num_frames,
                   frame_index, current_frame_map, frames, error, saved>>

Next ==
    \/ ConvertList
    \/ ScanColor
    \/ EndList
    \/ LoadImage
    \/ LoadImageFails
    \/ CalcFrames
    \/ MapFrame
    \/ RenderFrame
    \/ FrameRaises
    \/ HandleFrameError
    \/ EndFrames
    \/ SaveGif
    \/ SaveFails

Spec == Init /\ [][Next]_vars

\* ---- the frame map as a function of the frame index ----

\* lines 106-117 run to the end: the map, the seen colours and the warnings
RECURSIVE ScanLists(_, _, _, _)
ScanLists(lists, acc, i, j) ==
    IF i >= Len(lists) THEN acc
    ELSE IF j >= Len(lists[i + 1]) THEN ScanLists(lists, acc, i + 1, 0)
    ELSE LET color_rgb == lists[i + 1][j + 1]
         IN  ScanLists(lists,
                       [map |-> ClaimOwner(acc.map, acc.seen, color_rgb, i),
                        seen |-> acc.seen \cup {color_rgb},
                        warnings |-> IF color_rgb \in acc.seen
                                     THEN Append(acc.warnings, color_rgb)
                                     ELSE acc.warnings],
                       i, j + 1)

Registry(lists) ==
    ScanLists(lists, [map |-> EmptyDict, seen |-> {}, warnings |-> <<>>], 0, 0)

ConvertAll(hex_lists) == [g \in 1..Len(hex_lists) |-> ConvertHexList(hex_lists[g])]

\* the state of main() when the frame loop starts, for every valid input
InitMap ==
    /\ color_lists_hex \in HexLists(MapColors, MaxGroups, MaxGroupLen)
    /\ color_lists_rgb = ConvertAll(color_lists_hex)
    /\ all_target_colors_rgb = Registry(color_lists_rgb).seen
    /\ color_list_map = Registry(color_lists_rgb).map
    /\ warnings = Registry(color_lists_rgb).warnings
    /\ scan_i = Len(color_lists_hex)
    /\ scan_j = Len(color_lists_hex[Len(color_lists_hex)])
    /\ png_pixels = <<hex_to_rgb(PaletteHex[1])>>
    /\ base_pixels = png_pixels
    /\ num_frames = NumFrames(color_lists_rgb)
    /\ frame_index = 0
    /\ current_frame_map = EmptyDict
    /\ frames = <<>>
    /\ error = "none"
    /\ saved = <<>>
    /\ pc = "map"

\* lines 158-165 for one frame index
BuildFor ==
    /\ pc = "map"
    /\ \E k \in 0..MaxFrameIndex :
          /\ frame_index' = k
          /\ current_frame_map' = BuildFrameMap(color_lists_rgb, color_list_map, k)
    /\ pc' = "mapped"
    /\ UNCHANGED <<png_pixels, color_lists_hex, color_lists_rgb, all_target_colors_rgb,
                   color_list_map, warnings, scan_i, scan_j, base_pixels, num_frames,
                   frames, error, saved>>

NextMap == BuildFor

SpecMap == InitMap /\ [][NextMap]_vars

\* ---- the number of frames as a function of the list lengths ----

LcmGroups == UNION {[1..len -> {hex_to_rgb(PaletteHex[1])}] : len \in 0..MaxLcmLen}

LcmLists == UNION {[1..g -> LcmGroups] : g \in 0..MaxLcmGroups}

\* step 5 on any list of lists, the empty list and empty lists included
InitLcm ==
    /\ color_lists_rgb \in LcmLists
    /\ color_lists_hex = [g \in 1..Len(color_lists_rgb) |->
                            [n \in 1..Len(color_lists_rgb[g]) |-> PaletteHex[1]]]
    /\ all_target_colors_rgb = Registry(color_lists_rgb).seen
    /\ color_list_map = Registry(color_lists_rgb).map
    /\ warnings = Registry(color_lists_rgb).warnings
    /\ scan_i = Len(color_lists_rgb)
    /\ scan_j = 0
    /\ png_pixels = <<hex_to_rgb(PaletteHex[1])>>
    /\ base_pixels = png_pixels
    /\ num_frames = 1
    /\ frame_index = 0
    /\ current_frame_map = EmptyDict
    /\ frames = <<>>
    /\ error = "none"
    /\ saved = <<>>
    /\ pc = "lcm"

NextLcm == CalcFrames

SpecLcm == InitLcm /\ [][NextLcm]_vars

\* ---- vocabulary of the properties ----

Red == <<255, 0, 0>>
Green == <<0, 255, 0>>
Blue == <<0, 0, 255>>

InputRgb == ConvertAll(color_lists_hex)

ColorsOf(color_list) == {color_list[i] : i \in DOMAIN color_list}

TargetsOf(lists) == UNION {ColorsOf(lists[g]) : g \in DOMAIN lists}

GroupsWith(lists, c) == {g \in DOMAIN lists : c \in ColorsOf(lists[g])}

\* the lowest (1-based) position of a list that contains c
FirstGroupOf(lists, c) ==
    LET with == GroupsWith(lists, c)
    IN  CHOOSE g \in with : \A h \in with : g <= h

SharedOf(lists) == {c \in TargetsOf(lists) : Cardinality(GroupsWith(lists, c)) >= 2}

TargetColors == TargetsOf(InputRgb)

SharedColors == SharedOf(InputRgb)

HasInternalRepeat ==
    \E g \in DOMAIN color_lists_hex :
        Cardinality(ColorsOf(color_lists_hex[g])) < Len(color_lists_hex[g])

ScanDone == pc \notin {"convert", "scan"} \/ (pc = "convert" /\ scan_i = Len(color_lists_hex))

TableOf(k) == BuildFrameMap(color_lists_rgb, color_list_map, k)

\* ---- properties ----

\* C1: ownership exclusivity.  For every frame index k in [0, num_frames), a
\* colour that appears in two or more lists is mapped to g[(i + k) mod len(g)],
\* g being the first list that contains it and i a position of the colour in g;
\* for the lists [[A,B],[B,C]] at frame 1, B is mapped to A.
C1_OwnershipExclusivity ==
    (pc = "mapped" /\ frame_index < num_frames) =>
        /\ \A c \in SharedColors :
              LET g == InputRgb[FirstGroupOf(InputRgb, c)]
              IN  /\ c \in DOMAIN current_frame_map
                  /\ \E i \in 0..(Len(g) - 1) :
                        /\ g[i + 1] = c
                        /\ current_frame_map[c] = g[((i + frame_index) % Len(g)) + 1]
        /\ (InputRgb = << <<Red, Green>>, <<Green, Blue>> >> /\ frame_index = 1)
              => current_frame_map[Green] = Red

C1_Witness ==
    /\ pc = "mapped"
    /\ frame_index = 1
    /\ InputRgb = << <<Red, Green>>, <<Green, Blue>> >>
    /\ num_frames = 2
    /\ current_frame_map[Green] = Red
    /\ current_frame_map[Blue] = Green

\* C2: identity at frame 0.  The map built for frame index 0 sends every colour
\* of every list to itself, and the first frame equals the source pixels.
C2_IdentityAtFrame0 ==
    /\ (pc = "render" /\ frame_index = 0) =>
          \A c \in TargetColors :
              c \in DOMAIN current_frame_map /\ current_frame_map[c] = c
    /\ (pc \in {"frames", "render", "save", "done"} /\ Len(frames) >= 1) =>
          frames[1] = png_pixels

C2_Witness ==
    /\ pc = "frames"
    /\ Len(frames) = 1
    /\ SharedColors # {}
    /\ HasInternalRepeat
    /\ \E p \in DOMAIN base_pixels : base_pixels[p] \in TargetColors
    /\ frames[1] = png_pixels

\* C3: full-cycle periodicity.  The map built for frame k equals the map built
\* for frame k + num_frames (same keys, same values), for every k >= 0.
C3_Periodicity ==
    pc = "mapped" => current_frame_map = TableOf(frame_index + num_frames)

C3_Witness ==
    /\ pc = "mapped"
    /\ num_frames = 6
    /\ frame_index = 7
    /\ current_frame_map # TableOf(0)
    /\ current_frame_map = TableOf(1)
    /\ current_frame_map = TableOf(13)

\* the smallest positive integer that every length divides
LeastCommonMultiple(lens) ==
    LET Divides(m) == \A g \in DOMAIN lens : m % lens[g] = 0
    IN  CHOOSE m \in 1..(MaxLcmLen ^ Len(lens)) :
            Divides(m) /\ \A n \in 1..(m - 1) : ~Divides(n)

ListLens == [g \in DOMAIN color_lists_rgb |-> Len(color_lists_rgb[g])]

\* C4: LCM correctness.  The number of frames is the least common multiple of
\* the list lengths when there is a list and every length is >= 2, and 1 when
\* there is no list: [2,3] gives 6, [4,6] gives 12, [5] gives 5, [] gives 1.
\* calculate_lcm(a, b) is 0 when a or b is 0.
C4_LcmCorrectness ==
    pc = "frames" =>
        /\ (ListLens = <<>>) => num_frames = 1
        /\ (ListLens # <<>> /\ \A g \in DOMAIN ListLens : ListLens[g] >= 2)
              => num_frames = LeastCommonMultiple(ListLens)
        /\ (ListLens = <<2, 3>>) => num_frames = 6
        /\ (ListLens = <<4, 6>>) => num_frames = 12
        /\ (ListLens = <<5>>) => num_frames = 5
        /\ (Len(ListLens) = 2 /\ (ListLens[1] = 0 \/ ListLens[2] = 0))
              => num_frames = 0

C4_Witness ==
    /\ pc = "frames"
    /\ ListLens = <<4, 6, 3>>
    /\ num_frames = 12

\* C5: sequence ordering.  When the frame loop is over there are exactly
\* num_frames frames, and the frame at position j is the one rendered with
\* frame index j; while the loop runs the frames are such a prefix.
C5_SequenceOrdering ==
    /\ pc \in {"frames", "render", "except", "save", "done"} =>
          /\ Len(frames) <= num_frames
          /\ \A j \in 0..(Len(frames) - 1) :
                frames[j + 1] = RenderPixels(base_pixels, TableOf(j))
    /\ pc \in {"save", "done"} => Len(frames) = num_frames
    /\ pc = "done" => saved = frames

C5_Witness ==
    /\ pc = "done"
    /\ num_frames = 6
    /\ Len(frames) = 6
    /\ \A j, k \in 1..6 : j # k => frames[j] # frames[k]

\* C6: per-pixel rendering from the unmodified source.  The pixel of frame k at
\* a position is table_k[p] when the source colour p at that position is a key of
\* the table of frame k, and p otherwise (one substitution, from the source
\* pixels, which stay those of the image).  Source [R,B] with the list [R,G,B]
\* gives the frames [R,B], [G,R], [B,G].
C6_PerPixelRendering ==
    pc \in {"lcm", "frames", "render", "except", "save", "done"} =>
        /\ base_pixels = png_pixels
        /\ \A j \in 0..(Len(frames) - 1) :
              LET table == TableOf(j)
              IN  /\ Len(frames[j + 1]) = Len(png_pixels)
                  /\ \A p \in 1..Len(png_pixels) :
                        frames[j + 1][p] =
                            IF png_pixels[p] \in DOMAIN table
                            THEN table[png_pixels[p]]
                            ELSE png_pixels[p]
        /\ (pc = "done" /\ InputRgb = << <<Red, Green, Blue>> >>
                /\ png_pixels = <<Red, Blue>>)
              => frames = << <<Red, Blue>>, <<Green, Red>>, <<Blue, Green>> >>

C6_Witness ==
    /\ pc = "done"
    /\ InputRgb = << <<Red, Green, Blue>> >>
    /\ png_pixels = <<Red, Blue>>
    /\ saved = << <<Red, Blue>>, <<Green, Red>>, <<Blue, Green>> >>

\* C7: untouched pixels.  A pixel whose source colour is in no list has the
\* colour of the source in every frame.
C7_UntouchedPixels ==
    LET targets == TargetColors
    IN  \A j \in 1..Len(frames) :
            \A p \in 1..Len(png_pixels) :
                png_pixels[p] \notin targets => frames[j][p] = png_pixels[p]

C7_Witness ==
    /\ pc = "done"
    /\ Len(frames) >= 2
    /\ Len(png_pixels) = 2
    /\ png_pixels[1] \notin TargetColors
    /\ png_pixels[2] \in TargetColors
    /\ frames[2][1] = png_pixels[1]
    /\ frames[2][2] # png_pixels[2]

\* C8: first claim wins.  At every step of the scan a recorded colour maps to
\* the lowest index of a list containing it (so a later occurrence never
\* changes it), the recorded colours are the colours seen so far, and after the
\* scan the keys are exactly the colours of the lists.
C8_FirstClaimWins ==
    LET lists == InputRgb
    IN  /\ DOMAIN color_list_map = all_target_colors_rgb
        /\ \A c \in DOMAIN color_list_map :
              /\ c \in TargetsOf(lists)
              /\ color_list_map[c] = FirstGroupOf(lists, c) - 1
        /\ ScanDone => DOMAIN color_list_map = TargetsOf(lists)

C8_Witness ==
    /\ pc = "lcm"
    /\ SharedColors # {}
    /\ HasInternalRepeat
    /\ Len(warnings) >= 2
    /\ \E h \in HexColors(NumColors) : hex_to_rgb(h) \notin DOMAIN color_list_map
    /\ \E c \in SharedColors : color_list_map[c] = 0 /\ 2 \in GroupsWith(InputRgb, c)

\* C9: no partial success.  Once a frame iteration has raised, the run is in
\* the handler or has exited with an error and nothing has been saved; the save
\* step is reached only with all num_frames frames and no error.
C9_NoPartialSuccess ==
    /\ error # "none" => (pc \in {"except", "exit1"} /\ saved = <<>>)
    /\ pc \in {"save", "done"} =>
          (Len(frames) = num_frames /\ frame_index = num_frames /\ error = "none")
    /\ saved # <<>> => (pc = "done" /\ Len(saved) = num_frames)

C9_Witness ==
    /\ pc = "exit1"
    /\ error = "MemoryError"
    /\ Len(frames) >= 1
    /\ Len(frames) < num_frames
    /\ saved = <<>>

PairwiseDisjoint ==
    \A g, h \in DOMAIN InputRgb :
        g # h => ColorsOf(InputRgb[g]) \cap ColorsOf(InputRgb[h]) = {}

\* C10: minimal period.  With pairwise disjoint lists without repeated colours,
\* the maps of two distinct frame indices in [0, num_frames) differ, and each
\* map is a bijection of the targeted colours onto themselves.
C10_MinimalPeriod ==
    (pc = "mapped" /\ frame_index < num_frames /\ PairwiseDisjoint
        /\ ~HasInternalRepeat) =>
        /\ \A j \in 0..(num_frames - 1) :
              j # frame_index => TableOf(j) # current_frame_map
        /\ DOMAIN current_frame_map = TargetColors
        /\ {current_frame_map[c] : c \in TargetColors} = TargetColors
        /\ \A c, d \in TargetColors :
              current_frame_map[c] = current_frame_map[d] => c = d

C10_Witness ==
    /\ pc = "mapped"
    /\ PairwiseDisjoint
    /\ ~HasInternalRepeat
    /\ Len(InputRgb) = 2
    /\ num_frames = 6
    /\ frame_index = 3
    /\ current_frame_map # TableOf(0)

====
